---- MODULE Spec2Model ----
(***************************************************************************)
(* Model of the Arduino Logger class (src/src/Logger.h, src/src/Logger.cpp) *)
(* The state is the four private fields of the global Logger instance.     *)
(* Every public member function is one action.  `last` observes the most   *)
(* recent call: its name, its arguments, its return value and the output   *)
(* events (Stream::println calls and callback invocations, in order) that  *)
(* the call produced.                                                      *)
(* C strings are sequences of one-character strings; the buffer _buf is a  *)
(* sequence of LOG_BUFFER_SIZE cells, cell i+1 holding C's _buf[i].        *)
(***************************************************************************)
EXTENDS Integers, Sequences, FiniteSets

VARIABLES _logLevel, _enabled, _strm, _logEvent, last

vars == <<_logLevel, _enabled, _strm, _logEvent, last>>

(***************************** bounds of the model *************************)
\* Loglevel is uint8_t-backed: levels and thresholds range over 0..MaxLevel.
MaxLevel == 4
\* setEnabled takes a uint8_t: values 0..MaxEnabled.
MaxEnabled == 2
\* Formatted results range up to LOG_BUFFER_SIZE + Overlong characters.
Overlong == 2

(***************************** program constants ***************************)
LOG_BUFFER_SIZE == 255

logError == <<"E", "R", "R", "O", "R">>
logInfo == <<"I", "N", "F", "O">>
logDebug == <<"D", "E", "B", "U", "G">>

\* enum class Loglevel : uint8_t
Loglevel_err == 1
Loglevel_info == 2
Loglevel_debug == 3

\* The string terminator, and the content of a stack cell never written.
NUL == "\\0"
Junk == "junk"

\* Stream pointers: nullptr or the address of a Stream object.
NULL == "nullptr"
Streams == {"Serial", "Serial1"}
\* Callback objects: a default-constructed (invalid) one or a bound one.
NoEvent == "invalid"
Handlers == {"onLogA", "onLogB"}

Levels == 0..MaxLevel
EnabledValues == 0..MaxEnabled

\* A variadic argument: an int (for %d) or a C string (for %s).
IntArg(n) == [int |-> n, str |-> <<>>]
StrArg(x) == [int |-> 0, str |-> x]

(***************************** C strings ************************************)
Take(str, n) == SubSeq(str, 1, IF n < Len(str) THEN n ELSE Len(str))

Digit(d) == <<"0", "1", "2", "3", "4", "5", "6", "7", "8", "9">>[d + 1]

RECURSIVE Utoa(_)
Utoa(n) == IF n < 10 THEN <<Digit(n)>> ELSE Utoa(n \div 10) \o <<Digit(n % 10)>>

\* %d conversion of printf
Itoa(n) == IF n < 0 THEN <<"-">> \o Utoa(-n) ELSE Utoa(n)

\* The complete result of printf-formatting s with args (conversions %d, %s, %%).
RECURSIVE Format(_, _)
Format(s, args) ==
  IF s = <<>> THEN <<>>
  ELSE IF Head(s) # "%" THEN <<Head(s)>> \o Format(Tail(s), args)
  ELSE IF Len(s) = 1 THEN <<>>
  ELSE LET c == s[2]
           rest == SubSeq(s, 3, Len(s))
       IN  CASE c = "d" -> Itoa(Head(args).int) \o Format(rest, Tail(args))
             [] c = "s" -> Head(args).str \o Format(rest, Tail(args))
             [] c = "%" -> <<"%">> \o Format(rest, args)
             [] OTHER -> Format(rest, args)

\* strcpy(&buf[at], str): the characters of str and a terminator.
StrCpy(buf, at, str) ==
  SubSeq(buf, 1, at) \o str \o <<NUL>> \o SubSeq(buf, at + Len(str) + 2, Len(buf))

\* buf[idx] = c
Poke(buf, idx, c) == [buf EXCEPT ![idx + 1] = c]

\* Faulty variant of Vsnprintf: writes size characters before the terminator.
VsnprintfOffByOne(buf, at, size, s, args) == StrCpy(buf, at, Take(Format(s, args), size))

\* vsnprintf(&buf[at], size, s, args): at most size - 1 characters and a terminator.
Vsnprintf(buf, at, size, s, args) == StrCpy(buf, at, Take(Format(s, args), size - 1))

\* strlen(&buf[at]): the distance from &buf[at] to the first terminator.
StrLen(buf, at) ==
  LET nuls == {k \in (at + 1)..Len(buf) : buf[k] = NUL}
  IN  IF nuls = {} THEN Len(buf) - at
      ELSE (CHOOSE m \in nuls : \A k \in nuls : m <= k) - at - 1

\* The C string that starts at &buf[at].
CStr(buf, at) == SubSeq(buf, at + 1, at + StrLen(buf, at))

(***************************** inputs ***************************************)
\* A string of n characters whose i-th character tells i modulo 10.
Fill(n) == [i \in 1..n |-> Digit(i % 10)]

\* Lengths of formatted results at and just over the three capacities
\* LOG_BUFFER_SIZE - 7 - 1, LOG_BUFFER_SIZE - 6 - 1 and LOG_BUFFER_SIZE - 0 - 1.
LongLens ==
  {LOG_BUFFER_SIZE - 8, LOG_BUFFER_SIZE - 7, LOG_BUFFER_SIZE - 6}
    \cup ((LOG_BUFFER_SIZE - 1)..(LOG_BUFFER_SIZE - 1 + Overlong))

Msg(s, args) == [s |-> s, args |-> args]

ShortMessages ==
  { Msg(<<"b", "o", "o", "m">>, <<>>),
    Msg(<<"x", "=", "%", "d">>, <<IntArg(5)>>),
    Msg(<<"%", "d", "%", "%", " ", "%", "s">>, <<IntArg(-120), StrArg(<<"o", "k">>)>>) }

LongMessages == { Msg(<<"%", "s">>, <<StrArg(Fill(n))>>) : n \in LongLens }


(***************************** observation **********************************)
\* _strm->println(line)
Println(strm, line) ==
  [dst |-> "println", to |-> strm, level |-> 0, levelN |-> <<>>, s |-> <<>>, text |-> line]

\* _logEvent(level, levelN, s, msg)
Invoke(ev, level, levelN, s, msg) ==
  [dst |-> "callback", to |-> ev, level |-> level, levelN |-> levelN, s |-> s, text |-> msg]

Call(op) ==
  [op |-> op, flash |-> FALSE, level |-> 0, en |-> 0, strm |-> NULL, ev |-> NoEvent,
   s |-> <<>>, args |-> <<>>, ret |-> 0, out |-> <<>>]

(***************************** Logger ***************************************)
Init ==
  /\ _logLevel = 2
  /\ _enabled = 1
  /\ _strm = NULL
  /\ _logEvent = NoEvent
  /\ last = Call("Logger")

\* Faulty variant of Valid: a default-constructed callback counts as bound.
ValidAlways(ev) == TRUE

\* loggerCallback::valid()
Valid(ev) == ev # NoEvent

beginStrm(strm) ==
  /\ _strm' = strm
  /\ last' = [Call("begin(strm)") EXCEPT !.strm = strm]
  /\ UNCHANGED <<_logLevel, _enabled, _logEvent>>

\* Faulty variant of beginEv: attaching a callback detaches the stream.
beginEvReset(ev) ==
  /\ _logEvent' = ev
  /\ _strm' = NULL
  /\ last' = [Call("begin(ev)") EXCEPT !.ev = ev]
  /\ UNCHANGED <<_logLevel, _enabled>>

beginEv(ev) ==
  /\ _logEvent' = ev
  /\ last' = [Call("begin(ev)") EXCEPT !.ev = ev]
  /\ UNCHANGED <<_logLevel, _enabled, _strm>>

beginStrmEv(strm, ev) ==
  /\ _strm' = strm
  /\ _logEvent' = ev
  /\ last' = [Call("begin(strm,ev)") EXCEPT !.strm = strm, !.ev = ev]
  /\ UNCHANGED <<_logLevel, _enabled>>

\* Faulty variant of setLogLevel: thresholds above debug are clamped to debug.
setLogLevelClamped(level) ==
  /\ _logLevel' = (IF level > Loglevel_debug THEN Loglevel_debug ELSE level)
  /\ last' = [Call("setLogLevel") EXCEPT !.level = level]
  /\ UNCHANGED <<_enabled, _strm, _logEvent>>

setLogLevel(level) ==
  /\ _logLevel' = level
  /\ last' = [Call("setLogLevel") EXCEPT !.level = level]
  /\ UNCHANGED <<_enabled, _strm, _logEvent>>

getLogLevel ==
  /\ last' = [Call("getLogLevel") EXCEPT !.ret = _logLevel]
  /\ UNCHANGED <<_logLevel, _enabled, _strm, _logEvent>>

setEnabled(en) ==
  /\ _enabled' = en
  /\ last' = [Call("setEnabled") EXCEPT !.en = en]
  /\ UNCHANGED <<_logLevel, _strm, _logEvent>>

getEnabled ==
  /\ last' = [Call("getEnabled") EXCEPT !.ret = _enabled]
  /\ UNCHANGED <<_logLevel, _enabled, _strm, _logEvent>>

\* Faulty variant of Passes: a level equal to the threshold is filtered out.
PassesStrict(level) ==
  ~(_enabled = 0 \/ level >= _logLevel \/ (_strm = NULL /\ ~Valid(_logEvent)))

\* The guard of log: TRUE when the call goes on to format and deliver.
Passes(level) ==
  ~(_enabled = 0 \/ level > _logLevel \/ (_strm = NULL /\ ~Valid(_logEvent)))

\* char _buf[LOG_BUFFER_SIZE]; as declared, no cell written.
FreshBuf == [i \in 1..LOG_BUFFER_SIZE |-> Junk]

\* The values levelN can hold after the switch.  No case of the switch assigns
\* it for a level outside err, info, debug: reading it then is a read of an
\* uninitialised pointer, which may point at any string or at none.
LevelNames(level) ==
  CASE level = Loglevel_err -> {logError}
    [] level = Loglevel_info -> {logInfo}
    [] level = Loglevel_debug -> {logDebug}
    [] OTHER -> {logError, logInfo, logDebug, <<Junk>>}

\* Faulty variant of Switch: the info case pokes and indexes like the err case.
SwitchCopyPaste(level, buf) ==
  CASE level = Loglevel_err ->
         [buf |-> Poke(Poke(StrCpy(buf, 0, logError), 5, ":"), 6, " "), pti |-> 7]
    [] level = Loglevel_info ->
         [buf |-> Poke(Poke(StrCpy(buf, 0, logInfo), 5, ":"), 6, " "), pti |-> 7]
    [] level = Loglevel_debug ->
         [buf |-> Poke(Poke(StrCpy(buf, 0, logDebug), 5, ":"), 6, " "), pti |-> 7]
    [] OTHER -> [buf |-> buf, pti |-> 0]

\* The switch of log: the buffer and the print index it leaves.
Switch(level, buf) ==
  CASE level = Loglevel_err ->
         [buf |-> Poke(Poke(StrCpy(buf, 0, logError), 5, ":"), 6, " "), pti |-> 7]
    [] level = Loglevel_info ->
         [buf |-> Poke(Poke(StrCpy(buf, 0, logInfo), 4, ":"), 5, " "), pti |-> 6]
    [] level = Loglevel_debug ->
         [buf |-> Poke(Poke(StrCpy(buf, 0, logDebug), 5, ":"), 6, " "), pti |-> 7]
    [] OTHER -> [buf |-> buf, pti |-> 0]

\* Faulty variant of Deliver: the callback is handed the whole line.
DeliverWholeLine(level, levelN, s, buf, pti) ==
  (IF _strm # NULL THEN <<Println(_strm, CStr(buf, 0))>> ELSE <<>>)
    \o (IF Valid(_logEvent)
        THEN <<Invoke(_logEvent, level, levelN, s, CStr(buf, 0))>>
        ELSE <<>>)

\* Faulty variant of Deliver: the callback runs before the stream is written.
DeliverCallbackFirst(level, levelN, s, buf, pti) ==
  (IF Valid(_logEvent)
   THEN <<Invoke(_logEvent, level, levelN, s, CStr(buf, pti))>>
   ELSE <<>>)
    \o (IF _strm # NULL THEN <<Println(_strm, CStr(buf, 0))>> ELSE <<>>)

\* The deliveries of log, in program order: the stream first, then the callback.
Deliver(level, levelN, s, buf, pti) ==
  (IF _strm # NULL THEN <<Println(_strm, CStr(buf, 0))>> ELSE <<>>)
    \o (IF Valid(_logEvent)
        THEN <<Invoke(_logEvent, level, levelN, s, CStr(buf, pti))>>
        ELSE <<>>)

\* Logger::log, entered through the member function op.
LogCall(op, flash, level, s, args) ==
  LET call == [Call(op) EXCEPT !.flash = flash, !.level = level, !.s = s, !.args = args]
  IN  \/ /\ ~Passes(level)
         /\ last' = call
         /\ UNCHANGED <<_logLevel, _enabled, _strm, _logEvent>>
      \/ /\ Passes(level)
         /\ \E levelN \in LevelNames(level) :
              LET sw == Switch(level, FreshBuf)
                  buf == Vsnprintf(sw.buf, sw.pti, LOG_BUFFER_SIZE - sw.pti, s, args)
              IN  last' = [call EXCEPT !.out = Deliver(level, levelN, s, buf, sw.pti)]
         /\ UNCHANGED <<_logLevel, _enabled, _strm, _logEvent>>

log(level, s, args) == LogCall("log", FALSE, level, s, args)

\* error(const __FlashStringHelper *, ...) when flash, error(const char *, ...) otherwise
error(flash, s, args) == LogCall("error", flash, Loglevel_err, s, args)

info(flash, s, args) == LogCall("info", flash, Loglevel_info, s, args)

debug(flash, s, args) == LogCall("debug", flash, Loglevel_debug, s, args)

Next ==
  \/ \E strm \in Streams : beginStrm(strm)
  \/ \E ev \in Handlers \cup {NoEvent} : beginEv(ev)
  \/ \E strm \in Streams, ev \in Handlers \cup {NoEvent} : beginStrmEv(strm, ev)
  \/ \E level \in Levels : setLogLevel(level)
  \/ getLogLevel
  \/ \E en \in EnabledValues : setEnabled(en)
  \/ getEnabled
  \/ \E level \in Levels, m \in ShortMessages : log(level, m.s, m.args)
  \/ \E flash \in BOOLEAN, m \in ShortMessages : error(flash, m.s, m.args)
  \/ \E flash \in BOOLEAN, m \in ShortMessages : info(flash, m.s, m.args)
  \/ \E flash \in BOOLEAN, m \in ShortMessages : debug(flash, m.s, m.args)

Spec == Init /\ [][Next]_vars

\* The calls whose formatted result is about as long as the buffer: one stream,
\* one callback, every threshold, every level.
NextLong ==
  \/ beginStrm("Serial")
  \/ beginEv("onLogA")
  \/ \E level \in Levels : setLogLevel(level)
  \/ \E level \in Levels, m \in LongMessages : log(level, m.s, m.args)

SpecLong == Init /\ [][NextLong]_vars

(***************************** properties ***********************************)
LogOps == {"log", "error", "info", "debug"}
BeginOps == {"begin(strm)", "begin(ev)", "begin(strm,ev)"}

\* The most recent call was an emission; the fields are then those it ran with.
IsLog == last.op \in LogOps

IsPrintln(e) == e.dst = "println"
IsCallback(e) == e.dst = "callback"
Printed == SelectSeq(last.out, IsPrintln)
Called == SelectSeq(last.out, IsCallback)

Attached == _strm # NULL \/ _logEvent # NoEvent

\* The label and the prefix the documentation gives for a severity.
Label(level) ==
  CASE level = 1 -> <<"E", "R", "R", "O", "R">>
    [] level = 2 -> <<"I", "N", "F", "O">>
    [] level = 3 -> <<"D", "E", "B", "U", "G">>
    [] OTHER -> <<>>

PrefixOf(level) == IF level \in 1..3 THEN Label(level) \o <<":", " ">> ELSE <<>>

\* The formatted result of the most recent call, and what remains of it after
\* the cut to the room the buffer leaves behind the prefix.
Full == Format(last.s, last.args)
Room == LOG_BUFFER_SIZE - Len(PrefixOf(last.level)) - 1
Body == IF Len(Full) <= Room THEN Full ELSE SubSeq(Full, 1, Room)

StartsWith(str, pre) == Len(str) >= Len(pre) /\ SubSeq(str, 1, Len(pre)) = pre

boom == <<"b", "o", "o", "m">>

\* C1: with a destination attached, an emission at level L is delivered to
\* every attached destination if and only if the enabled flag is non-zero and
\* L <= threshold; when disabled nothing is delivered.
C1_DeliversIffEnabledAndWithinThreshold ==
  (IsLog /\ Attached) =>
    LET ok == _enabled # 0 /\ last.level <= _logLevel
    IN  /\ (_strm # NULL) => (Len(Printed) = (IF ok THEN 1 ELSE 0))
        /\ (_logEvent # NoEvent) => (Len(Called) = (IF ok THEN 1 ELSE 0))
        /\ (_enabled = 0) => last.out = <<>>

C1_Witness ==
  /\ last.op = "debug"
  /\ _logLevel = 3
  /\ _enabled = 1
  /\ _strm # NULL
  /\ Len(Printed) = 1

\* C2: with neither a stream nor a valid callback attached, an emission
\* writes nothing, invokes nothing and returns nothing to the caller.
C2_NoDestinationNoEffect ==
  (IsLog /\ _strm = NULL /\ _logEvent = NoEvent) => (last.out = <<>> /\ last.ret = 0)

C2_Witness ==
  /\ IsLog
  /\ _strm = NULL
  /\ _logEvent = NoEvent
  /\ _enabled = 1
  /\ last.level <= _logLevel

\* C3: a delivered message at level err, info or debug is written to the
\* stream as one println of "ERROR: ", "INFO: " or "DEBUG: " followed by the
\* formatted message; info("x=%d", 5) writes "INFO: x=5", and under the
\* threshold info debug("x=%d", 5) writes nothing.
C3_LineIsLabelColonMessage ==
  /\ (IsLog /\ last.level \in 1..3 /\ Len(Printed) > 0) =>
       Printed = <<Println(_strm, Label(last.level) \o <<":", " ">> \o Body)>>
  /\ (last.op = "info" /\ last.s = <<"x", "=", "%", "d">> /\ last.args = <<IntArg(5)>>
        /\ _strm # NULL /\ _enabled # 0 /\ _logLevel = 2) =>
       Printed = <<Println(_strm, <<"I", "N", "F", "O", ":", " ", "x", "=", "5">>)>>
  /\ (last.op = "debug" /\ _logLevel = 2) => last.out = <<>>

C3_Witness ==
  /\ last.op = "info"
  /\ _logLevel = 2
  /\ Len(Printed) = 1
  /\ Printed[1].text = <<"I", "N", "F", "O", ":", " ", "x", "=", "5">>

\* C4: a delivered message with a valid callback attached invokes the
\* callback exactly once with the raw level, the label of that level, the
\* format string as passed and the formatted message without the prefix;
\* error("boom") invokes it with (1, "ERROR", "boom", "boom").
C4_CallbackArguments ==
  /\ (IsLog /\ _logEvent # NoEvent /\ last.out # <<>>) =>
       /\ Len(Called) = 1
       /\ Called[1].to = _logEvent
       /\ Called[1].level = last.level
       /\ Called[1].s = last.s
       /\ Called[1].text = Body
       /\ (last.level \in 1..3) => Called[1].levelN = Label(last.level)
  /\ (last.op = "error" /\ last.s = boom /\ _logEvent # NoEvent /\ _strm = NULL
        /\ _enabled # 0 /\ _logLevel = 3) =>
       last.out = <<Invoke(_logEvent, 1, <<"E", "R", "R", "O", "R">>, boom, boom)>>

C4_Witness ==
  /\ last.op = "error"
  /\ _logLevel = 3
  /\ _strm = NULL
  /\ last.out = <<Invoke("onLogA", 1, <<"E", "R", "R", "O", "R">>, boom, boom)>>

\* C5: a message that passes the guard produces, with both destinations
\* attached, exactly one stream write followed by exactly one callback
\* invocation; with one destination attached, one delivery to it and none to
\* the other.
C5_StreamBeforeCallback ==
  (IsLog /\ Attached /\ _enabled # 0 /\ last.level <= _logLevel) =>
    /\ (_strm # NULL /\ _logEvent # NoEvent) =>
         /\ Len(last.out) = 2
         /\ IsPrintln(last.out[1]) /\ last.out[1].to = _strm
         /\ IsCallback(last.out[2]) /\ last.out[2].to = _logEvent
    /\ (_strm # NULL /\ _logEvent = NoEvent) =>
         /\ Len(last.out) = 1
         /\ IsPrintln(last.out[1]) /\ last.out[1].to = _strm
    /\ (_strm = NULL /\ _logEvent # NoEvent) =>
         /\ Len(last.out) = 1
         /\ IsCallback(last.out[1]) /\ last.out[1].to = _logEvent

C5_Witness ==
  /\ IsLog
  /\ _strm = "Serial1"
  /\ _logEvent = "onLogB"
  /\ Len(last.out) = 2

\* C6: a begin call that supplies a stream makes it the stream in use, one
\* that supplies a callback makes it the callback in use, a target of the
\* kind not supplied stays as it was, no other call changes either target,
\* and no begin call changes the threshold or the enabled flag.
C6_BeginStep ==
  /\ (last'.op \in {"begin(strm)", "begin(strm,ev)"}) => _strm' = last'.strm
  /\ (last'.op \in {"begin(ev)", "begin(strm,ev)"}) => _logEvent' = last'.ev
  /\ (last'.op \notin {"begin(strm)", "begin(strm,ev)"}) => _strm' = _strm
  /\ (last'.op \notin {"begin(ev)", "begin(strm,ev)"}) => _logEvent' = _logEvent
  /\ (last'.op \in BeginOps) =>
       (_logLevel' = _logLevel /\ _enabled' = _enabled /\ last'.ret = 0)

C6_BeginLastWriteWins == [][C6_BeginStep]_vars

C6_Witness ==
  /\ last.op = "begin(ev)"
  /\ last.ev = "onLogB"
  /\ _logEvent = "onLogB"
  /\ _strm = "Serial1"
  /\ _logLevel = 3
  /\ _enabled = 0

\* C7: the threshold and the enabled flag start as info and 1 and are changed
\* by setLogLevel and setEnabled alone, to the value passed; whether an
\* emission delivers is decided by their values when it is called; a call
\* that is no emission delivers nothing; an emission changes neither them nor
\* the attached destinations.
C7_Step ==
  /\ (last'.op = "setLogLevel") => _logLevel' = last'.level
  /\ (last'.op # "setLogLevel") => _logLevel' = _logLevel
  /\ (last'.op = "setEnabled") => _enabled' = last'.en
  /\ (last'.op # "setEnabled") => _enabled' = _enabled
  /\ (last'.op \notin LogOps) => last'.out = <<>>
  /\ (last'.op \in LogOps) =>
       /\ (last'.out # <<>>) <=> (_enabled # 0 /\ last'.level <= _logLevel /\ Attached)
       /\ UNCHANGED <<_logLevel, _enabled, _strm, _logEvent>>

C7_ReconfigurationNotRetroactive ==
  (_logLevel = 2 /\ _enabled = 1) /\ [][C7_Step]_vars

C7_Witness ==
  /\ IsLog
  /\ Attached
  /\ _enabled = 0
  /\ _logLevel = 4
  /\ last.level = 4
  /\ last.out = <<>>

C9_GetEnabledIsZeroOrOne ==
  (last.op = "getEnabled") =>
    /\ last.ret \in {0, 1}
    /\ (last.ret = 1) <=> (_enabled # 0)

\* C10: every delivered line starts with "ERROR: ", "INFO: " or "DEBUG: " and
\* every label handed to the callback is "ERROR", "INFO" or "DEBUG", for any
\* level value that passes the guard.
C10_AlwaysLabelled ==
  IsLog =>
    /\ \A i \in 1..Len(Printed) :
         \E l \in 1..3 : StartsWith(Printed[i].text, Label(l) \o <<":", " ">>)
    /\ \A i \in 1..Len(Called) : \E l \in 1..3 : Called[i].levelN = Label(l)

====
